---- MODULE Spec2Model ----
(***************************************************************************)
(* The `remove` command of the CLI (packages/cli/src/commands/remove.ts):  *)
(* argument checks, identifier resolution, safe-mode expansion, alias      *)
(* filtering, confirmation and the delete phase.  main() is an async       *)
(* function; every `await` is a suspension point, so main is modelled as   *)
(* the code segments between awaits (pc) and every in-flight request as a  *)
(* promise that settles in its own step.                                   *)
(***************************************************************************)
EXTENDS Integers, Sequences, FiniteSets, TLC

VARIABLES
  argvError,        \* getArgs() throws on the command line
  helpFlag,         \* argv['--help']
  ids,              \* argv._ after slice(1)
  safe,             \* argv['--safe']
  skipConfirmation, \* argv['--yes']
  hard,             \* argv['--hard']
  aliased,          \* server side: ids of the deployments that have an alias
  pc,               \* where main() is suspended
  exitCode,         \* value main() returned, NoCode while none
  rejectedBy,       \* the call whose rejection made main()'s promise reject
  contextName,
  deploymentList,   \* results of the getDeployment batch, positional
  projectList,      \* results of the getProjectByIdOrName batch, positional
  projectDeployments, \* results of the getDeploymentsByProjectId batch
  deployments,
  projects,
  aliases,          \* result of the getAliases batch
  aliasInflight,    \* getAliases calls not yet settled
  removeInflight,   \* delete calls not yet settled
  filtered,         \* the alias filter (lines 203-210) has run
  warned,           \* the more-than-200 warning was printed
  prompted,         \* readConfirmation printed the prompt and reads stdin
  stdinLine,        \* the chunk received on stdin
  calls             \* every network call issued so far, in order

vars == <<argvError, helpFlag, ids, safe, skipConfirmation, hard, aliased, pc,
          exitCode, rejectedBy, contextName, deploymentList, projectList,
          projectDeployments, deployments, projects, aliases, aliasInflight,
          removeInflight, filtered, warned, prompted, stdinLine, calls>>

----------------------------------------------------------------------------
(* Bounds *)

MaxIds == 2
MaxLineLen == 2
BigProjectSize == 202

(* Program constants *)

MaxProjectDeployments == 201
MaxProjects == 201
WarnAbove == 200

NoCode == -1

----------------------------------------------------------------------------
(* Sequence helpers *)

Min(a, b) == IF a < b THEN a ELSE b

SeqsUpTo(S, n) == UNION {[1..k -> S] : k \in 0..n}

RECURSIVE Flatten(_)
Flatten(ss) == IF ss = <<>> THEN <<>> ELSE Head(ss) \o Flatten(Tail(ss))

----------------------------------------------------------------------------
(* The server side the lookups answer from *)

Pending == [kind |-> "pending"]
NowErr == [kind |-> "NowError"]

Depl(id, name, url) == [kind |-> "deployment", id |-> id, name |-> name, url |-> url]
Proj(id, name) == [kind |-> "project", id |-> id, name |-> name]

D1 == Depl("d1", "app", "app-d1.vercel.app")
D2 == Depl("d2", "app", "app-d2.vercel.app")
D3 == Depl("d3", "blog", "blog-d3.vercel.app")
PApp == Proj("prj_app", "app")
PBig == Proj("prj_big", "big")

BigDeployment(i) == Depl("b" \o ToString(i), "big", "big-" \o ToString(i) \o ".vercel.app")

ServerDeployments == {D1, D2, D3}
ServerProjects == {PApp, PBig}

ValidIds == {"help", "d1", "https://blog-d3.vercel.app", "app"}
InvalidIds == {"", "/"}
Ids == ValidIds \cup InvalidIds
BigIdLists == {<<"big">>, <<"d1", "big">>, <<"app">>, <<"/">>, <<>>, <<"help">>}
AliasWorlds == {{}, {"d1"}, {"d1", "d3"}}
BigAliasWorlds == {{}, {"b1"}}

----------------------------------------------------------------------------
(* Collaborators imported from @vercel-internals/utils *)

isValidName(name) == name \notin InvalidIds

normalizeURL(u) == IF u = "https://blog-d3.vercel.app" THEN "blog-d3.vercel.app" ELSE u

\* what getDeployment resolves with; it rejects when there is none
getDeployment(idOrHost) ==
  {d \in ServerDeployments : d.id = idOrHost \/ d.url = normalizeURL(idOrHost)}

\* what getProjectByIdOrName resolves with: the project, or a ProjectNotFound value
getProjectByIdOrName(idOrName) ==
  LET found == {p \in ServerProjects : p.id = idOrName \/ p.name = idOrName}
  IN  IF found = {} THEN {NowErr} ELSE found

getDeploymentsByProjectId(projectId, max) ==
  IF projectId = "prj_app" THEN <<D1, D2>>
  ELSE IF projectId = "prj_big"
       THEN [i \in 1..Min(BigProjectSize, max) |-> BigDeployment(i)]
       ELSE <<>>

getAliases(deploymentId) ==
  IF deploymentId \in aliased THEN <<[alias |-> "www.example.com"]>> ELSE <<>>

----------------------------------------------------------------------------
(* String.prototype.trim and toLowerCase on a line of characters *)

Whitespace == {" ", "\n"}
Chars == {"y", "Y", "e", "s", "\n"}

StdinLines ==
  SeqsUpTo(Chars, MaxLineLen)
    \cup {<<"y", "e", "s">>, <<"Y", "E", "S">>, <<"Y", "e", "s", "\n">>,
          <<"y", "\n">>, <<"n", "\n">>, <<"n", "o">>, <<"y", "e", "s", "s">>,
          <<"m", "a", "y", "b", "e">>, <<" ", "Y", "E", "s", " ", "\n">>,
          <<"y", " ", "e", "s">>, <<"y", "e", "S", "\n">>, <<"n">>, <<" ">>,
          <<" ", "y">>, <<"Y", " ">>}

lowerChar(c) ==
  CASE c = "Y" -> "y"
    [] c = "E" -> "e"
    [] c = "S" -> "s"
    [] OTHER -> c

toLowerCase(s) == [i \in 1..Len(s) |-> lowerChar(s[i])]

RECURSIVE trimStart(_)
trimStart(s) ==
  IF s # <<>> /\ Head(s) \in Whitespace THEN trimStart(Tail(s)) ELSE s

RECURSIVE trimEnd(_)
trimEnd(s) ==
  IF s # <<>> /\ s[Len(s)] \in Whitespace THEN trimEnd(SubSeq(s, 1, Len(s) - 1)) ELSE s

\* mutation: the chunk is compared untrimmed
trim_none(s) == s

trim(s) == trimEnd(trimStart(s))

----------------------------------------------------------------------------
(* Pure pieces of main() *)

\* ids.find(name => !isValidName(name)); the result is tested for truthiness
invalidNameFound ==
  \E i \in 1..Len(ids) :
    /\ ~isValidName(ids[i])
    /\ \A j \in 1..(i - 1) : isValidName(ids[j])
    /\ ids[i] # ""

searchFilter(d) ==
  \E i \in 1..Len(ids) :
    /\ d.kind # "pending"
    /\ d.kind # "NowError"
    /\ \/ d.id = ids[i]
       \/ d.name = ids[i]
       \/ ("url" \in DOMAIN d /\ d.url = normalizeURL(ids[i]))

\* mutation: the deployments of matched projects are kept
notInProjects_all(ps, d) == TRUE

notInProjects(ps, d) == ~\E j \in 1..Len(ps) : ps[j].name = d.name

withAliases(d, a) == [aliases |-> a] @@ d

\* mutation: the filter forgets the safe-mode test
keptByAliasFilter_all(i, as) == TRUE

\* lines 203-210
keptByAliasFilter(i, as) == ~(safe /\ Len(as[i]) > 0)

aliasFilter(ds, as) ==
  LET keptIndexes == SelectSeq([i \in 1..Len(ds) |-> i],
                               LAMBDA i : keptByAliasFilter(i, as))
  IN  [k \in 1..Len(keptIndexes) |->
         withAliases(ds[keptIndexes[k]], as[keptIndexes[k]])]

\* mutation: line 185 is missing
safeProjects_kept(ps) == ps

\* line 185
safeProjects(ps) == <<>>

\* mutation: the empty result is only reported outside safe mode
nothingFound_unsafe(ds, ps) == Len(ds) = 0 /\ Len(ps) = 0 /\ ~safe

\* line 212
nothingFound(ds, ps) == Len(ds) = 0 /\ Len(ps) = 0

Call(fn, arg) == [fn |-> fn, arg |-> arg]

\* mutation: the delete phase honours the 200 limit of the warning
removeCalls_capped(ds, ps) ==
  [i \in 1..Min(Len(ds), WarnAbove) |-> [fn |-> "remove", arg |-> ds[i].id, hard |-> hard]]
    \o [j \in 1..Len(ps) |-> Call("removeProject", ps[j].id)]

\* lines 252-255
removeCalls(ds, ps) ==
  [i \in 1..Len(ds) |-> [fn |-> "remove", arg |-> ds[i].id, hard |-> hard]]
    \o [j \in 1..Len(ps) |-> Call("removeProject", ps[j].id)]

aliasCalls(ds) == [i \in 1..Len(ds) |-> Call("getAliases", ds[i].id)]

----------------------------------------------------------------------------
(* Initial states: a command line and a server state *)

InitRun ==
  /\ pc = "start"
  /\ exitCode = NoCode
  /\ rejectedBy = "none"
  /\ contextName = ""
  /\ deploymentList = <<>>
  /\ projectList = <<>>
  /\ projectDeployments = <<>>
  /\ deployments = <<>>
  /\ projects = <<>>
  /\ aliases = <<>>
  /\ aliasInflight = 0
  /\ removeInflight = 0
  /\ filtered = FALSE
  /\ warned = FALSE
  /\ prompted = FALSE
  /\ stdinLine = <<>>
  /\ calls = <<>>

Init ==
  /\ InitRun
  /\ argvError \in BOOLEAN
  /\ helpFlag \in BOOLEAN
  /\ safe \in BOOLEAN
  /\ skipConfirmation \in BOOLEAN
  /\ hard \in BOOLEAN
  /\ ids \in SeqsUpTo(Ids, MaxIds)
  /\ aliased \in AliasWorlds
  /\ argvError => (~helpFlag /\ ~safe /\ ~skipConfirmation /\ ~hard /\ ids = <<>> /\ aliased = {})

InitBig ==
  /\ InitRun
  /\ argvError = FALSE
  /\ helpFlag = FALSE
  /\ safe \in BOOLEAN
  /\ skipConfirmation \in BOOLEAN
  /\ hard \in BOOLEAN
  /\ ids \in BigIdLists
  /\ aliased \in BigAliasWorlds

----------------------------------------------------------------------------
(* main(), segment by segment *)

Return(code) ==
  /\ pc' = "returned"
  /\ exitCode' = code

Reject(by) ==
  /\ pc' = "rejected"
  /\ rejectedBy' = by

\* lines 246-255: the delete calls are all created before the await
IssueRemoves(ds, ps) ==
  /\ calls' = calls \o removeCalls(ds, ps)
  /\ removeInflight' = Len(ds) + Len(ps)
  /\ pc' = "remove"

\* lines 193-198
IssueAliases(ds) ==
  /\ calls' = calls \o aliasCalls(ds)
  /\ aliasInflight' = Len(ds)
  /\ pc' = "aliases"

\* lines 76-123: argument checks, then await getScope(client)
Start ==
  /\ pc = "start"
  /\ IF argvError THEN Return(1) /\ UNCHANGED calls
     ELSE IF helpFlag \/ (Len(ids) >= 1 /\ ids[1] = "help") THEN Return(2) /\ UNCHANGED calls
     ELSE IF Len(ids) < 1 THEN Return(1) /\ UNCHANGED calls
     ELSE IF invalidNameFound THEN Return(1) /\ UNCHANGED calls
     ELSE /\ pc' = "scope"
          /\ calls' = Append(calls, Call("getScope", ""))
          /\ UNCHANGED exitCode
  /\ UNCHANGED <<argvError, helpFlag, ids, safe, skipConfirmation, hard, aliased,
                 rejectedBy, contextName, deploymentList, projectList,
                 projectDeployments, deployments, projects, aliases, aliasInflight,
                 removeInflight, filtered, warned, prompted, stdinLine>>

\* line 123 rejects
GetScopeRejects ==
  /\ pc = "scope"
  /\ Reject("getScope")
  /\ UNCHANGED <<argvError, helpFlag, ids, safe, skipConfirmation, hard, aliased,
                 exitCode, contextName, deploymentList, projectList,
                 projectDeployments, deployments, projects, aliases, aliasInflight,
                 removeInflight, filtered, warned, prompted, stdinLine, calls>>

\* lines 123-157: getScope resolved; the two lookup batches are issued
GetScopeResolves(name) ==
  /\ pc = "scope"
  /\ contextName' = name
  /\ IF name = ""
     THEN /\ Reject("contextName")
          /\ UNCHANGED <<deploymentList, projectList, calls>>
     ELSE /\ pc' = "lookup"
          /\ deploymentList' = [i \in 1..Len(ids) |-> Pending]
          /\ projectList' = [i \in 1..Len(ids) |-> Pending]
          /\ calls' = calls \o [i \in 1..Len(ids) |-> Call("getDeployment", ids[i])]
                            \o [i \in 1..Len(ids) |-> Call("getProjectByIdOrName", ids[i])]
          /\ UNCHANGED rejectedBy
  /\ UNCHANGED <<argvError, helpFlag, ids, safe, skipConfirmation, hard, aliased,
                 exitCode, projectDeployments, deployments, projects, aliases,
                 aliasInflight, removeInflight, filtered, warned, prompted, stdinLine>>

\* line 151: getDeployment(...) resolves
GetDeploymentResolves(i) ==
  /\ pc = "lookup"
  /\ deploymentList[i] = Pending
  /\ \E d \in getDeployment(ids[i]) :
       deploymentList' = [deploymentList EXCEPT ![i] = d]
  /\ UNCHANGED <<argvError, helpFlag, ids, safe, skipConfirmation, hard, aliased, pc,
                 exitCode, rejectedBy, contextName, projectList,
                 projectDeployments, deployments, projects, aliases, aliasInflight,
                 removeInflight, filtered, warned, prompted, stdinLine, calls>>

\* mutation: the .catch(err => err) of line 151 is missing
GetDeploymentRejects_thrown(i) ==
  /\ pc = "lookup"
  /\ deploymentList[i] = Pending
  /\ Reject("getDeployment")
  /\ UNCHANGED <<argvError, helpFlag, ids, safe, skipConfirmation, hard, aliased,
                 exitCode, contextName, deploymentList, projectList,
                 projectDeployments, deployments, projects, aliases, aliasInflight,
                 removeInflight, filtered, warned, prompted, stdinLine, calls>>

\* line 151: getDeployment(...) rejects and .catch(err => err) turns it into a value
GetDeploymentRejects(i) ==
  /\ pc = "lookup"
  /\ deploymentList[i] = Pending
  /\ deploymentList' = [deploymentList EXCEPT ![i] = NowErr]
  /\ UNCHANGED <<argvError, helpFlag, ids, safe, skipConfirmation, hard, aliased, pc,
                 exitCode, rejectedBy, contextName, projectList,
                 projectDeployments, deployments, projects, aliases, aliasInflight,
                 removeInflight, filtered, warned, prompted, stdinLine, calls>>

\* line 155: getProjectByIdOrName resolves, with a project or a not-found value
GetProjectResolves(i) ==
  /\ pc = "lookup"
  /\ projectList[i] = Pending
  /\ \E p \in getProjectByIdOrName(ids[i]) :
       projectList' = [projectList EXCEPT ![i] = p]
  /\ UNCHANGED <<argvError, helpFlag, ids, safe, skipConfirmation, hard, aliased, pc,
                 exitCode, rejectedBy, contextName, deploymentList,
                 projectDeployments, deployments, projects, aliases, aliasInflight,
                 removeInflight, filtered, warned, prompted, stdinLine, calls>>

\* line 155: getProjectByIdOrName rejects; nothing catches it (try/finally, lines 136-201)
GetProjectRejects(i) ==
  /\ pc = "lookup"
  /\ projectList[i] = Pending
  /\ Reject("getProjectByIdOrName")
  /\ UNCHANGED <<argvError, helpFlag, ids, safe, skipConfirmation, hard, aliased,
                 exitCode, contextName, deploymentList, projectList,
                 projectDeployments, deployments, projects, aliases, aliasInflight,
                 removeInflight, filtered, warned, prompted, stdinLine, calls>>

\* mutation: the batch resumes main on its first result
Settled_first(list) == \E i \in 1..Len(list) : list[i] # Pending

\* Promise.all (lines 145, 166) resolves once every element has
Settled(list) == \A i \in 1..Len(list) : list[i] # Pending

\* lines 159-198: both lookup batches resolved
AfterLookup ==
  /\ pc = "lookup"
  /\ Settled(deploymentList)
  /\ Settled(projectList)
  /\ LET matchedDeployments == SelectSeq(deploymentList, searchFilter)
         matchedProjects == SelectSeq(projectList, searchFilter)
         standalone == SelectSeq(matchedDeployments,
                                 LAMBDA d : notInProjects(matchedProjects, d))
     IN  /\ projects' = matchedProjects
         /\ IF safe
            THEN /\ deployments' = matchedDeployments
                 /\ projectDeployments' = [j \in 1..Len(matchedProjects) |-> Pending]
                 /\ calls' = calls \o [j \in 1..Len(matchedProjects) |->
                                         Call("getDeploymentsByProjectId", matchedProjects[j].id)]
                 /\ pc' = "expand"
                 /\ UNCHANGED aliasInflight
            ELSE /\ deployments' = standalone
                 /\ IssueAliases(standalone)
                 /\ UNCHANGED projectDeployments
  /\ UNCHANGED <<argvError, helpFlag, ids, safe, skipConfirmation, hard, aliased,
                 exitCode, rejectedBy, contextName, deploymentList, projectList,
                 aliases, removeInflight, filtered, warned, prompted, stdinLine>>

\* lines 168-171: one listing resolves
GetProjectDeploymentsResolves(j) ==
  /\ pc = "expand"
  /\ projectDeployments[j] = Pending
  /\ projectDeployments' =
       [projectDeployments EXCEPT ![j] =
          [kind |-> "deployments",
           list |-> getDeploymentsByProjectId(projects[j].id, MaxProjectDeployments)]]
  /\ UNCHANGED <<argvError, helpFlag, ids, safe, skipConfirmation, hard, aliased, pc,
                 exitCode, rejectedBy, contextName, deploymentList, projectList,
                 deployments, projects, aliases, aliasInflight,
                 removeInflight, filtered, warned, prompted, stdinLine, calls>>

\* lines 166-173: one listing rejects
GetProjectDeploymentsRejects(j) ==
  /\ pc = "expand"
  /\ projectDeployments[j] = Pending
  /\ Reject("getDeploymentsByProjectId")
  /\ UNCHANGED <<argvError, helpFlag, ids, safe, skipConfirmation, hard, aliased,
                 exitCode, contextName, deploymentList, projectList,
                 projectDeployments, deployments, projects, aliases, aliasInflight,
                 removeInflight, filtered, warned, prompted, stdinLine, calls>>

\* lines 175-198: the listings are merged with a placeholder alias list
AfterExpand ==
  /\ pc = "expand"
  /\ Settled(projectDeployments)
  /\ LET to == Min(Len(projectDeployments), MaxProjects)
         pushed == Flatten([j \in 1..to |->
                      [k \in 1..Len(projectDeployments[j].list) |->
                         withAliases(projectDeployments[j].list[k], <<>>)]])
         candidates == deployments \o pushed
     IN  /\ deployments' = candidates
         /\ projects' = safeProjects(projects)
         /\ IssueAliases(candidates)
  /\ UNCHANGED <<argvError, helpFlag, ids, safe, skipConfirmation, hard, aliased,
                 exitCode, rejectedBy, contextName, deploymentList, projectList,
                 projectDeployments, aliases, removeInflight, filtered, warned,
                 prompted, stdinLine>>

\* line 195: one getAliases call resolves
GetAliasesResolves ==
  /\ pc = "aliases"
  /\ aliasInflight > 0
  /\ aliasInflight' = aliasInflight - 1
  /\ UNCHANGED <<argvError, helpFlag, ids, safe, skipConfirmation, hard, aliased, pc,
                 exitCode, rejectedBy, contextName, deploymentList, projectList,
                 projectDeployments, deployments, projects, aliases,
                 removeInflight, filtered, warned, prompted, stdinLine, calls>>

\* line 195: one getAliases call rejects
GetAliasesRejects ==
  /\ pc = "aliases"
  /\ aliasInflight > 0
  /\ Reject("getAliases")
  /\ UNCHANGED <<argvError, helpFlag, ids, safe, skipConfirmation, hard, aliased,
                 exitCode, contextName, deploymentList, projectList,
                 projectDeployments, deployments, projects, aliases, aliasInflight,
                 removeInflight, filtered, warned, prompted, stdinLine, calls>>

\* lines 199-255 up to the next await: filter, empty check, warning, prompt or delete
AfterAliases ==
  /\ pc = "aliases"
  /\ aliasInflight = 0
  /\ LET fetched == [i \in 1..Len(deployments) |-> getAliases(deployments[i].id)]
         final == aliasFilter(deployments, fetched)
     IN  /\ aliases' = fetched
         /\ deployments' = final
         /\ filtered' = TRUE
         /\ IF nothingFound(final, projects)
            THEN /\ Return(1)
                 /\ UNCHANGED <<warned, prompted, calls, removeInflight>>
            ELSE /\ warned' = (Len(final) > WarnAbove)
                 /\ IF ~skipConfirmation
                    THEN /\ pc' = "confirm"
                         /\ prompted' = TRUE
                         /\ UNCHANGED <<calls, removeInflight>>
                    ELSE /\ IssueRemoves(final, projects)
                         /\ UNCHANGED prompted
                 /\ UNCHANGED exitCode
  /\ UNCHANGED <<argvError, helpFlag, ids, safe, skipConfirmation, hard, aliased,
                 rejectedBy, contextName, deploymentList, projectList,
                 projectDeployments, projects, aliasInflight, stdinLine>>

\* lines 236-255 and 329-334: a chunk arrives on stdin
StdinData(line) ==
  /\ pc = "confirm"
  /\ stdinLine' = line
  /\ LET confirmation == toLowerCase(trim(line))
     IN  IF confirmation # <<"y">> /\ confirmation # <<"y", "e", "s">>
         THEN /\ Return(1)
              /\ UNCHANGED <<calls, removeInflight>>
         ELSE /\ IssueRemoves(deployments, projects)
              /\ UNCHANGED exitCode
  /\ UNCHANGED <<argvError, helpFlag, ids, safe, skipConfirmation, hard, aliased,
                 rejectedBy, contextName, deploymentList, projectList,
                 projectDeployments, deployments, projects, aliases, aliasInflight,
                 filtered, warned, prompted>>

\* lines 253-254: one delete call resolves
RemoveResolves ==
  /\ pc = "remove"
  /\ removeInflight > 0
  /\ removeInflight' = removeInflight - 1
  /\ UNCHANGED <<argvError, helpFlag, ids, safe, skipConfirmation, hard, aliased, pc,
                 exitCode, rejectedBy, contextName, deploymentList, projectList,
                 projectDeployments, deployments, projects, aliases, aliasInflight,
                 filtered, warned, prompted, stdinLine, calls>>

\* lines 252-255: one delete call rejects
RemoveRejects ==
  /\ pc = "remove"
  /\ removeInflight > 0
  /\ Reject("remove")
  /\ UNCHANGED <<argvError, helpFlag, ids, safe, skipConfirmation, hard, aliased,
                 exitCode, contextName, deploymentList, projectList,
                 projectDeployments, deployments, projects, aliases, aliasInflight,
                 removeInflight, filtered, warned, prompted, stdinLine, calls>>

\* mutation: the success path returns the failure code
AfterRemove_fails ==
  /\ pc = "remove"
  /\ removeInflight = 0
  /\ Return(1)
  /\ UNCHANGED <<argvError, helpFlag, ids, safe, skipConfirmation, hard, aliased,
                 rejectedBy, contextName, deploymentList, projectList,
                 projectDeployments, deployments, projects, aliases, aliasInflight,
                 removeInflight, filtered, warned, prompted, stdinLine, calls>>

\* lines 257-270
AfterRemove ==
  /\ pc = "remove"
  /\ removeInflight = 0
  /\ Return(0)
  /\ UNCHANGED <<argvError, helpFlag, ids, safe, skipConfirmation, hard, aliased,
                 rejectedBy, contextName, deploymentList, projectList,
                 projectDeployments, deployments, projects, aliases, aliasInflight,
                 removeInflight, filtered, warned, prompted, stdinLine, calls>>

Next ==
  \/ Start
  \/ GetScopeRejects
  \/ \E name \in {"acme", ""} : GetScopeResolves(name)
  \/ \E i \in 1..Len(deploymentList) : GetDeploymentResolves(i)
  \/ \E i \in 1..Len(deploymentList) : GetDeploymentRejects(i)
  \/ \E i \in 1..Len(projectList) : GetProjectResolves(i)
  \/ \E i \in 1..Len(projectList) : GetProjectRejects(i)
  \/ AfterLookup
  \/ \E j \in 1..Len(projectDeployments) : GetProjectDeploymentsResolves(j)
  \/ \E j \in 1..Len(projectDeployments) : GetProjectDeploymentsRejects(j)
  \/ AfterExpand
  \/ GetAliasesResolves
  \/ GetAliasesRejects
  \/ AfterAliases
  \/ \E line \in StdinLines : StdinData(line)
  \/ RemoveResolves
  \/ RemoveRejects
  \/ AfterRemove

Spec == Init /\ [][Next]_vars

SpecBig == InitBig /\ [][Next]_vars

----------------------------------------------------------------------------
(* Vocabulary of the properties *)

IsDelete(c) == c.fn \in {"remove", "removeProject"}

DeleteCalls == SelectSeq(calls, IsDelete)

CalledWith(fn, arg) == \E k \in 1..Len(calls) : calls[k].fn = fn /\ calls[k].arg = arg

NonePending(list) == \A i \in 1..Len(list) : list[i].kind # "pending"

LookupsSettled ==
  /\ Len(deploymentList) = Len(ids)
  /\ Len(projectList) = Len(ids)
  /\ NonePending(deploymentList)
  /\ NonePending(projectList)
  /\ NonePending(projectDeployments)

AcceptedWords ==
  {<<a>> : a \in {"y", "Y"}}
    \cup {<<a, b, c>> : a \in {"y", "Y"}, b \in {"e", "E"}, c \in {"s", "S"}}

\* the line is y or yes in any letter case, surrounded by white space only
SaysYes(line) ==
  \E i \in 1..Len(line), j \in 1..Len(line) :
    /\ i <= j
    /\ SubSeq(line, i, j) \in AcceptedWords
    /\ \A k \in 1..Len(line) : (k < i \/ k > j) => line[k] \in {" ", "\n"}

\* the alias fetch has been issued
AliasPhaseReached ==
  \/ pc \in {"aliases", "confirm", "remove"}
  \/ filtered
  \/ rejectedBy \in {"getAliases", "remove"}

HelpRequested == helpFlag \/ (Len(ids) >= 1 /\ ids[1] = "help")

----------------------------------------------------------------------------
(* C1: when confirmation is not skipped, the delete phase is entered only  *)
(* if the line read from stdin is y or yes up to letter case and           *)
(* surrounding white space; on any other line main returns 1 and no delete *)
(* call is ever issued.                                                    *)
C1_ConfirmationGate ==
  ~skipConfirmation =>
    /\ DeleteCalls # <<>> => (prompted /\ SaysYes(stdinLine))
    /\ (prompted /\ pc # "confirm") =>
         IF SaysYes(stdinLine)
         THEN DeleteCalls # <<>> /\ pc \in {"remove", "returned", "rejected"}
                /\ exitCode \in {NoCode, 0}
         ELSE pc = "returned" /\ exitCode = 1 /\ DeleteCalls = <<>>

C1_Witness ==
  /\ ~skipConfirmation
  /\ stdinLine = <<"Y", "e", "s", "\n">>
  /\ pc = "remove"
  /\ DeleteCalls # <<>>

(* C2: in safe mode no deployment of the final removal set has an alias:   *)
(* its attached alias list is empty, the server has no alias for it, and   *)
(* no delete call names an aliased deployment.                             *)
C2_SafeAliasFree ==
  (safe /\ filtered) =>
    /\ \A i \in 1..Len(deployments) :
         deployments[i].aliases = <<>> /\ deployments[i].id \notin aliased
    /\ \A k \in 1..Len(calls) : calls[k].fn = "remove" => calls[k].arg \notin aliased

C2_Witness ==
  /\ safe
  /\ ids = <<"app">>
  /\ aliased = {"d1"}
  /\ pc = "remove"
  /\ Len(deployments) = 1
  /\ deployments[1].id = "d2"

(* C3: a run with an identifier that fails isValidName (and no help        *)
(* request or argument error before it) returns 1 without any network call.*)
C3_InvalidIdentifierRejected ==
  ( /\ ~argvError
    /\ ~HelpRequested
    /\ \E i \in 1..Len(ids) : ~isValidName(ids[i])
    /\ pc # "start" )
  => (pc = "returned" /\ exitCode = 1 /\ calls = <<>>)

(* C4 as stated: every finished run in which a lookup, an alias fetch or a *)
(* delete call failed has main returning 1.                                *)
C4_FailureReturnsOne ==
  ( /\ pc \in {"returned", "rejected"}
    /\ \/ rejectedBy \in {"getProjectByIdOrName", "getAliases", "remove"}
       \/ \E i \in 1..Len(deploymentList) : deploymentList[i].kind = "NowError" )
  => (pc = "returned" /\ exitCode = 1)

(* C4 amended: main returns 2 on help, 1 on an argument error, a missing   *)
(* or reported invalid identifier, an empty result or a declined           *)
(* confirmation, 0 once every delete call resolved; a failed deployment    *)
(* lookup never decides the outcome, and a rejected getScope, project      *)
(* lookup, project listing, alias fetch or delete call makes main's        *)
(* promise reject without an exit code.                                    *)
C4_ExitCodes ==
  /\ (pc = "returned") <=> (exitCode \in {0, 1, 2})
  /\ (pc # "returned") => exitCode = NoCode
  /\ (exitCode = 2) <=> (pc = "returned" /\ ~argvError /\ HelpRequested)
  /\ (exitCode = 0) =>
       DeleteCalls # <<>> /\ removeInflight = 0 /\ rejectedBy = "none"
  /\ (exitCode = 1) =>
       /\ DeleteCalls = <<>>
       /\ \/ argvError
          \/ ids = <<>>
          \/ (calls = <<>> /\ \E i \in 1..Len(ids) : ~isValidName(ids[i]))
          \/ (filtered /\ deployments = <<>> /\ projects = <<>>)
          \/ (prompted /\ ~SaysYes(stdinLine))
  /\ (pc = "rejected") <=> (rejectedBy # "none")
  /\ rejectedBy \in {"none", "getScope", "contextName", "getProjectByIdOrName",
                     "getDeploymentsByProjectId", "getAliases", "remove"}
  /\ (rejectedBy = "remove") => DeleteCalls # <<>>

C4_Witness ==
  /\ pc = "rejected"
  /\ rejectedBy = "remove"
  /\ exitCode = NoCode
  /\ \E i \in 1..Len(deploymentList) : deploymentList[i].kind = "NowError"

(* C5: outside safe mode, from the alias fetch on, no deployment of the    *)
(* removal set is named like a project of the removal set, and neither an  *)
(* alias fetch nor a delete call is issued for such a deployment.          *)
C5_NoDoubleRemoval ==
  (~safe /\ AliasPhaseReached) =>
    /\ \A i \in 1..Len(deployments), j \in 1..Len(projects) :
         deployments[i].name # projects[j].name
    /\ \A d \in ServerDeployments, j \in 1..Len(projects) :
         d.name = projects[j].name =>
           (~CalledWith("getAliases", d.id) /\ ~CalledWith("remove", d.id))

C5_Witness ==
  /\ ~safe
  /\ ids = <<"d1", "app">>
  /\ pc = "remove"
  /\ deploymentList[1].kind = "deployment"
  /\ projectList[2].kind = "project"
  /\ deployments = <<>>
  /\ Len(projects) = 1

(* C6: in safe mode the project removal set is empty from the alias fetch  *)
(* on and removeProject is never called; the deployments listed for the    *)
(* matched projects enter the candidate set with an empty alias list.      *)
C6_SafeNoProjects ==
  safe =>
    /\ AliasPhaseReached => projects = <<>>
    /\ \A k \in 1..Len(calls) : calls[k].fn # "removeProject"
    /\ (pc = "aliases") =>
         /\ \A i \in 1..Len(deployments) :
              "aliases" \in DOMAIN deployments[i] => deployments[i].aliases = <<>>
         /\ \A j \in 1..Len(projectDeployments) :
              \A k \in 1..Len(projectDeployments[j].list) :
                \E i \in 1..Len(deployments) :
                  /\ deployments[i].id = projectDeployments[j].list[k].id
                  /\ "aliases" \in DOMAIN deployments[i]

C6_Witness ==
  /\ safe
  /\ ids = <<"app">>
  /\ pc = "remove"
  /\ projectList[1].kind = "project"
  /\ Len(deployments) = 2
  /\ projects = <<>>

(* C7: when the final deployment set and the final project set are both    *)
(* empty, main returns 1, the prompt is not shown and no delete call is    *)
(* issued.                                                                 *)
C7_EmptyResult ==
  (filtered /\ deployments = <<>> /\ projects = <<>>) =>
    /\ pc = "returned"
    /\ exitCode = 1
    /\ ~prompted
    /\ DeleteCalls = <<>>

C7_Witness ==
  /\ safe
  /\ ids = <<"d1">>
  /\ "d1" \in aliased
  /\ filtered
  /\ deployments = <<>>
  /\ exitCode = 1

(* C8 as stated: no lookup failure, of a deployment or of a project, is    *)
(* thrown.                                                                 *)
C8_NoLookupFailureThrown ==
  rejectedBy \notin {"getDeployment", "getProjectByIdOrName"}

(* C8 amended: a deployment lookup that rejects and a project lookup that  *)
(* resolves with not-found are values: they match nothing and the other    *)
(* identifiers' matches reach the alias fetch (deployments), the project   *)
(* set or the project listing (projects).  A project lookup that rejects   *)
(* is not captured: main's promise rejects before any later call.          *)
C8_LookupFailuresCaptured ==
  /\ rejectedBy # "getDeployment"
  /\ \A i \in 1..Len(deploymentList) :
       deploymentList[i].kind = "NowError" =>
         \A k \in 1..Len(deployments) : deployments[k] # deploymentList[i]
  /\ AliasPhaseReached =>
       /\ \A i \in 1..Len(deploymentList) :
            ( /\ deploymentList[i].kind = "deployment"
              /\ safe \/ \A j \in 1..Len(projectList) :
                           projectList[j].kind = "project" =>
                             projectList[j].name # deploymentList[i].name )
            => CalledWith("getAliases", deploymentList[i].id)
       /\ \A j \in 1..Len(projectList) :
            projectList[j].kind = "project" =>
              IF safe THEN CalledWith("getDeploymentsByProjectId", projectList[j].id)
              ELSE \E k \in 1..Len(projects) : projects[k] = projectList[j]
  /\ (rejectedBy = "getProjectByIdOrName") =>
       /\ pc = "rejected"
       /\ \A k \in 1..Len(calls) :
            calls[k].fn \in {"getScope", "getDeployment", "getProjectByIdOrName"}

C8_Witness ==
  /\ ids = <<"d1", "help">>
  /\ pc = "remove"
  /\ deploymentList[1].kind = "deployment"
  /\ deploymentList[2].kind = "NowError"
  /\ projectList[2].kind = "NowError"
  /\ CalledWith("remove", "d1")

Rank(fn) ==
  CASE fn = "getScope" -> 0
    [] fn \in {"getDeployment", "getProjectByIdOrName"} -> 1
    [] fn = "getDeploymentsByProjectId" -> 2
    [] fn = "getAliases" -> 3
    [] fn \in {"remove", "removeProject"} -> 4

(* C9: the phases are ordered: calls are issued in phase order, no alias   *)
(* fetch is issued before every lookup has settled, the prompt reads input *)
(* only after every alias fetch has settled, and a delete call exists only *)
(* after the confirmation completed (or, with --yes, without any prompt or *)
(* input), never while a lookup, an alias fetch or the prompt is pending.  *)
C9_PhaseOrder ==
  /\ \A i \in 1..Len(calls), j \in 1..Len(calls) :
       i < j => Rank(calls[i].fn) <= Rank(calls[j].fn)
  /\ (\E k \in 1..Len(calls) : calls[k].fn = "getAliases") => LookupsSettled
  /\ prompted => (LookupsSettled /\ aliasInflight = 0)
  /\ (DeleteCalls # <<>> \/ removeInflight > 0) =>
       /\ LookupsSettled
       /\ aliasInflight = 0
       /\ pc # "confirm"
       /\ IF skipConfirmation THEN ~prompted /\ stdinLine = <<>>
          ELSE prompted /\ stdinLine # <<>>

C9_Witness ==
  /\ safe
  /\ ~skipConfirmation
  /\ Len(projectDeployments) > 0
  /\ Len(ids) = 2
  /\ prompted
  /\ pc = "remove"
  /\ removeInflight > 0
  /\ removeInflight < Len(DeleteCalls)

(* C10: once a delete call exists, the delete calls are exactly one per    *)
(* final deployment (with the --hard flag) followed by one per final       *)
(* project, all of them issued in one step while none has settled; the     *)
(* warning above 200 deployments changes nothing of that.                  *)
C10_DeleteCalls ==
  LET issued == DeleteCalls
  IN  /\ (pc = "remove" \/ exitCode = 0 \/ rejectedBy = "remove") => issued # <<>>
      /\ issued # <<>> =>
           /\ filtered
           /\ issued =
                [i \in 1..Len(deployments) |->
                   [fn |-> "remove", arg |-> deployments[i].id, hard |-> hard]]
                  \o [j \in 1..Len(projects) |->
                        [fn |-> "removeProject", arg |-> projects[j].id]]
           /\ removeInflight <= Len(issued)
      /\ warned <=> (filtered /\ Len(deployments) > 200)

C10_Witness ==
  /\ warned
  /\ pc = "remove"
  /\ Len(deployments) > 200
  /\ Len(DeleteCalls) = Len(deployments)
  /\ removeInflight = Len(DeleteCalls)
====
